---- MODULE Spec2Model ----
(***************************************************************************)
(* Segment playback confinement of VideoPlayerContainer.tsx: the list of   *)
(* timestamp ranges, the playback mode, the effect that attaches the       *)
(* timeupdate / seeked / ended handlers to the video.js player, and the    *)
(* two setTimeout callbacks (isolated end correction, jump re-check).      *)
(*                                                                         *)
(* Times are integers in hundredths of a second (Centi per second), so     *)
(* 20.2 s is 2020, the 0.5 s buffer is 50 and the 0.1 s step back is 10.   *)
(* A text is a sequence of one-character strings.                          *)
(***************************************************************************)
EXTENDS Integers, Sequences, FiniteSets, TLC

VARIABLES
    timestampRanges,     \* useState<TimestampRange[]>: the segment list
    player,              \* useState<Player | null>: TRUE once onReady ran
    singleSegmentMode,   \* useState(false)
    activeSegmentIndex,  \* useState(-1)
    engine,              \* the closure of the segment effect's last run
    position,            \* the transport's current time
    duration,            \* the transport's duration, 0 while it is unknown
    timers,              \* pending setTimeout callbacks, in scheduling order
    cmds,                \* transport commands issued by the last step
    lastOp               \* the last step: handler, its input, what it saw

vars == <<timestampRanges, player, singleSegmentMode, activeSegmentIndex,
          engine, position, duration, timers, cmds, lastOp>>

----------------------------------------------------------------------------
(* Bounds of the model.                                                    *)

MaxRanges == 2      \* addTimestampRange is offered while the list is shorter
MaxPending == 2     \* setTimeout callbacks that may be pending together
MaxEndCorrections == 1  \* of them, 10 ms callbacks of timeUpdateHandler

(* Units and tolerances of the code.                                       *)
Centi == 100        \* hundredths per second
EndBackoff == 10    \* endSeconds - 0.1
PassedBuffer == 50  \* endSeconds + 0.5
RecheckTolerance == 50  \* Math.abs(currentTime - startSeconds) > 0.5

NULL == -1000000000 \* the value null of a number | null
NaN == -1000000001  \* the value NaN returned by parseInt

----------------------------------------------------------------------------
(* timeToSeconds and the string functions it uses.                         *)

DigitChars == <<"0", "1", "2", "3", "4", "5", "6", "7", "8", "9">>

IsDigit(c) == \E d \in 1..10 : DigitChars[d] = c

DigitVal(c) == (CHOOSE d \in 1..10 : DigitChars[d] = c) - 1

IsSpace(c) == c = " "

RECURSIVE TrimStart(_)
TrimStart(s) ==
    IF s # <<>> /\ IsSpace(Head(s)) THEN TrimStart(Tail(s)) ELSE s

RECURSIVE TrimEnd(_)
TrimEnd(s) ==
    IF s # <<>> /\ IsSpace(s[Len(s)])
    THEN TrimEnd(SubSeq(s, 1, Len(s) - 1))
    ELSE s

Trim(s) == TrimEnd(TrimStart(s))

(* The leading digits of s as a number, and how many there are.            *)
RECURSIVE DigitPrefix(_, _, _)
DigitPrefix(s, acc, n) ==
    IF s # <<>> /\ IsDigit(Head(s))
    THEN DigitPrefix(Tail(s), acc * 10 + DigitVal(Head(s)), n + 1)
    ELSE [value |-> acc, count |-> n]

(* parseInt(part, 10): leading white space, an optional sign, then the     *)
(* longest run of digits; NaN when there is no digit.                      *)
ParseInt(part) ==
    LET t == TrimStart(part)
        neg == t # <<>> /\ Head(t) = "-"
        signed == t # <<>> /\ Head(t) \in {"-", "+"}
        body == IF signed THEN Tail(t) ELSE t
        p == DigitPrefix(body, 0, 0)
    IN IF p.count = 0 THEN NaN
       ELSE IF neg THEN 0 - p.value ELSE p.value

(* timeStr.split(':')                                                      *)
RECURSIVE Split(_, _, _)
Split(s, cur, acc) ==
    IF s = <<>> THEN Append(acc, cur)
    ELSE IF Head(s) = ":" THEN Split(Tail(s), <<>>, Append(acc, cur))
    ELSE Split(Tail(s), Append(cur, Head(s)), acc)

timeToSeconds(timeStr) ==
    IF timeStr = <<>> THEN NULL
    ELSE LET raw == Split(timeStr, <<>>, <<>>)
             parts == [k \in 1..Len(raw) |-> ParseInt(raw[k])]
         IN IF \E k \in 1..Len(parts) : parts[k] = NaN THEN NULL
            ELSE IF Len(parts) = 3
                 THEN (parts[1] * 3600 + parts[2] * 60 + parts[3]) * Centi
            ELSE IF Len(parts) = 2
                 THEN (parts[1] * 60 + parts[2]) * Centi
            ELSE IF Len(parts) = 1
                 THEN parts[1] * Centi
            ELSE NULL

----------------------------------------------------------------------------
(* formatTimeString of onCut and the string functions it uses.             *)

(* n.toString() for n >= 0                                                 *)
RECURSIVE ToText(_)
ToText(n) ==
    IF n < 10 THEN <<DigitChars[n + 1]>>
    ELSE ToText(n \div 10) \o <<DigitChars[(n % 10) + 1]>>

(* text.padStart(2, '0')                                                   *)
PadStart2(text) == IF Len(text) < 2 THEN <<"0">> \o text ELSE text

(* seconds is in hundredths; Math.floor((seconds % 1) * 100) is the        *)
(* hundredths of seconds whose fraction is exact in binary floating point  *)
(* (.00, .25, .50, .75), the only ones the model cuts at.                  *)
formatTimeString(seconds) ==
    LET hours == seconds \div (3600 * Centi)
        minutes == (seconds % (3600 * Centi)) \div (60 * Centi)
        wholeSeconds == (seconds % (60 * Centi)) \div Centi
        milliseconds == seconds % Centi
        secondsPart == PadStart2(ToText(wholeSeconds)) \o <<":">>
                          \o PadStart2(ToText(milliseconds))
    IN IF hours > 0
       THEN PadStart2(ToText(hours)) \o <<":">> \o PadStart2(ToText(minutes))
               \o <<":">> \o secondsPart
       ELSE PadStart2(ToText(minutes)) \o <<":">> \o secondsPart

----------------------------------------------------------------------------
(* Inputs the model draws from.                                            *)

(* What the user types into the fields of the two rows: the segments       *)
(* (10,20) and (30,40), and an end of "0" in the first row.                *)
TypedTexts(index, field) ==
    IF index = 0
    THEN (IF field = "start" THEN { <<"1", "0">> }
                             ELSE { <<"2", "0">>, <<"0">> })
    ELSE (IF field = "start" THEN { <<"3", "0">> }
                             ELSE { <<"4", "0">> })

(* Positions at which the transport reports: before the first segment,     *)
(* inside, just past an end, past the buffer, in the gap, past the last.   *)
Positions == { 500, 2020, 2050, 4000, 4060, 4100 }

(* Where the media ends: the position at which the transport reports ended *)
MediaEnd == 4100

(* Positions at which the transport reports while it plays cut segments:   *)
(* between (0,0.05) and (1.5,12.5), inside (0,12.5) and (1.5,12.5), and at  *)
(* the end of the 0.5 s buffer after 12.5                                  *)
CutPositions == { 100, 500, 1300 }

(* <<startTime, endTime>> of a cut, as parseTimeToSeconds returns them:    *)
(* (0,12.5), (1.5,12.5) which overlaps it, (12.5,1.5) cut backwards, and   *)
(* (0,0.05), which ends before 0.1 s (0.05 * 100 is floored to 5)          *)
CutPairs == { <<0, 1250>>, <<150, 1250>>, <<1250, 150>>, <<0, 5>> }

----------------------------------------------------------------------------
(* Helpers for the code's 0-based arrays and JavaScript coercions.         *)

At(seq, i) == seq[i + 1]

Min(a, b) == IF a <= b THEN a ELSE b

Abs(a) == IF a < 0 THEN 0 - a ELSE a

(* x || 0 and the numeric coercion of null                                 *)
OrZero(x) == IF x = NULL THEN 0 ELSE x

(* a number | null used as a condition: null and 0 are falsy               *)
Truthy(x) == x # NULL /\ x # 0

(* Transport commands.                                                     *)
SeekTo(t) == [c |-> "seekTo", t |-> t]
Pause == [c |-> "pause", t |-> 0]
Play == [c |-> "play", t |-> 0]

(* player.currentTime() after the commands: the last seek, not below 0     *)
RECURSIVE ApplyCmds(_, _)
ApplyCmds(pos, cs) ==
    IF cs = <<>> THEN pos
    ELSE ApplyCmds(IF Head(cs).c = "seekTo"
                   THEN (IF OrZero(Head(cs).t) < 0 THEN 0 ELSE OrZero(Head(cs).t))
                   ELSE pos,
                   Tail(cs))

----------------------------------------------------------------------------
(* The segment list.  id stands for the identity of the JavaScript object: *)
(* updateTimestampRange writes into the object it finds in the list, and   *)
(* the setTimeout callbacks keep a reference to the object they captured.  *)

EmptyRange(id) ==
    [id |-> id, start |-> <<>>, end |-> <<>>,
     startSeconds |-> NULL, endSeconds |-> NULL, label |-> 0]

UsedIds == { timestampRanges[k].id : k \in 1..Len(timestampRanges) }
               \cup { timers[k].range.id : k \in 1..Len(timers) }

NewId == CHOOSE i \in 1..(MaxRanges + MaxPending + 1) :
             i \notin UsedIds /\ \A j \in 1..(i - 1) : j \in UsedIds

(* validRanges: the filter of the segment effect                           *)
IsValidRange(range) ==
    /\ range.startSeconds # NULL
    /\ range.endSeconds # NULL
    /\ Trim(range.start) # <<>>
    /\ Trim(range.end) # <<>>

RECURSIVE FilterValid(_)
FilterValid(ranges) ==
    IF ranges = <<>> THEN <<>>
    ELSE IF IsValidRange(Head(ranges))
         THEN <<Head(ranges)>> \o FilterValid(Tail(ranges))
         ELSE FilterValid(Tail(ranges))

(* validRanges.sort((a, b) => (a.startSeconds || 0) - (b.startSeconds || 0)) *)
(* Array.prototype.sort is stable.                                         *)
RECURSIVE InsertByStart(_, _)
InsertByStart(sorted, r) ==
    IF sorted = <<>> THEN <<r>>
    ELSE IF OrZero(Head(sorted).startSeconds) <= OrZero(r.startSeconds)
         THEN <<Head(sorted)>> \o InsertByStart(Tail(sorted), r)
         ELSE <<r>> \o sorted

RECURSIVE SortByStart(_)
SortByStart(ranges) ==
    IF ranges = <<>> THEN <<>>
    ELSE InsertByStart(SortByStart(SubSeq(ranges, 1, Len(ranges) - 1)),
                       ranges[Len(ranges)])

ValidRanges(ranges) == SortByStart(FilterValid(ranges))


----------------------------------------------------------------------------
(* The segment effect: what one run of it builds.                          *)

Detached ==
    [attached |-> FALSE, validRanges |-> <<>>, currentSegmentIndex |-> 0,
     singleSegmentMode |-> FALSE, activeSegmentIndex |-> -1, subscribed |-> 0]

(* a cleanup that leaves the handlers of the previous run subscribed       *)
UnsubscribedNever == engine.subscribed

(* lines 346-350: before the effect runs again, the cleanup the previous   *)
(* run returned (only a run that subscribed returned one) takes its three  *)
(* handlers off the player.  subscribed counts the handlers the player     *)
(* holds for each of timeupdate, seeked and ended.                         *)
Unsubscribed ==
    IF engine.attached THEN engine.subscribed - 1 ELSE engine.subscribed

(* The body of the effect up to player.on(...): no player, or no valid     *)
(* range, and nothing is attached; otherwise the handlers close over the   *)
(* sorted valid ranges, the mode, the active index and a fresh             *)
(* currentSegmentIndex = 0.                                                *)
RunEffect(p, ranges, single, active) ==
    IF ~p THEN [Detached EXCEPT !.subscribed = Unsubscribed]
    ELSE IF Len(ranges) > 0 /\ ValidRanges(ranges) # <<>>
         THEN [attached |-> TRUE, validRanges |-> ValidRanges(ranges),
               currentSegmentIndex |-> 0,
               singleSegmentMode |-> single, activeSegmentIndex |-> active,
               subscribed |-> Unsubscribed + 1]
         ELSE [Detached EXCEPT !.subscribed = Unsubscribed]

(* initializeSegment: seek to the start of the first valid range           *)
initializeSegment(validRanges) ==
    IF Len(validRanges) > 0 /\ At(validRanges, 0).startSeconds # NULL
    THEN <<SeekTo(At(validRanges, 0).startSeconds)>>
    ELSE <<>>

(* What a run of the effect does to the transport when it has attached     *)
(* the handlers: nothing, the call of initializeSegment is commented out.  *)
MountCmdsEager(e) == IF e.attached THEN initializeSegment(e.validRanges) ELSE <<>>

MountCmds(e) == <<>>

(* The cleanup of the previous run removes its three handlers; the         *)
(* setTimeout callbacks it scheduled stay pending (none is cleared) and    *)
(* are from then on callbacks of a torn-down run.                          *)
Cleanup(ts) ==
    [k \in 1..Len(ts) |->
        IF engine.attached /\ ts[k].kind = "endCorrection"
        THEN [ts[k] EXCEPT !.stale = TRUE]
        ELSE ts[k]]

----------------------------------------------------------------------------
(* timeUpdateHandler                                                       *)

Result(cs, cur, ts) == [cmds |-> cs, currentSegmentIndex |-> cur, timers |-> ts]

EndCorrectionTimer(range) ==
    [kind |-> "endCorrection", range |-> range, stale |-> FALSE]

(* the last, not the first, range with startSeconds <= currentTime < endSeconds *)
RECURSIVE ContainingIndexLast(_, _, _)
ContainingIndexLast(validRanges, currentTime, i) ==
    IF i >= Len(validRanges) THEN -1
    ELSE LET range == At(validRanges, i)
             later == ContainingIndexLast(validRanges, currentTime, i + 1)
         IN IF later # -1 THEN later
            ELSE IF /\ range.startSeconds # NULL /\ range.endSeconds # NULL
                    /\ currentTime >= range.startSeconds
                    /\ currentTime < range.endSeconds
                 THEN i
                 ELSE -1

(* first loop: the first range with startSeconds <= currentTime < endSeconds *)
RECURSIVE ContainingIndex(_, _, _)
ContainingIndex(validRanges, currentTime, i) ==
    IF i >= Len(validRanges) THEN -1
    ELSE LET range == At(validRanges, i)
         IN IF /\ range.startSeconds # NULL /\ range.endSeconds # NULL
               /\ currentTime >= range.startSeconds
               /\ currentTime < range.endSeconds
            THEN i
            ELSE ContainingIndex(validRanges, currentTime, i + 1)

(* PassedScan with the end itself, not the end plus 0.5 s, as the bound    *)
RECURSIVE PassedScanNoBuffer(_, _, _)
PassedScanNoBuffer(e, currentTime, i) ==
    LET validRanges == e.validRanges IN
    IF i >= Len(validRanges)
    THEN [done |-> FALSE, cmds |-> <<>>, cur |-> e.currentSegmentIndex]
    ELSE LET range == At(validRanges, i)
             hit == /\ range.endSeconds # NULL
                    /\ currentTime >= range.endSeconds
                    /\ i = e.currentSegmentIndex
         IN IF ~hit THEN PassedScanNoBuffer(e, currentTime, i + 1)
            ELSE IF ~e.singleSegmentMode /\ i < Len(validRanges) - 1
                 THEN IF At(validRanges, i + 1).startSeconds # NULL
                      THEN [done |-> TRUE,
                            cmds |-> <<SeekTo(At(validRanges, i + 1).startSeconds)>>,
                            cur |-> i + 1]
                      ELSE PassedScanNoBuffer(e, currentTime, i + 1)
                 ELSE [done |-> TRUE, cmds |-> <<Pause>>, cur |-> i]

(* PassedScan that seeks to the next range and leaves the recorded index   *)
RECURSIVE PassedScanNoAdvance(_, _, _)
PassedScanNoAdvance(e, currentTime, i) ==
    LET validRanges == e.validRanges IN
    IF i >= Len(validRanges)
    THEN [done |-> FALSE, cmds |-> <<>>, cur |-> e.currentSegmentIndex]
    ELSE LET range == At(validRanges, i)
             hit == /\ range.endSeconds # NULL
                    /\ currentTime >= range.endSeconds + PassedBuffer
                    /\ i = e.currentSegmentIndex
         IN IF ~hit THEN PassedScanNoAdvance(e, currentTime, i + 1)
            ELSE IF ~e.singleSegmentMode /\ i < Len(validRanges) - 1
                 THEN IF At(validRanges, i + 1).startSeconds # NULL
                      THEN [done |-> TRUE,
                            cmds |-> <<SeekTo(At(validRanges, i + 1).startSeconds)>>,
                            cur |-> i]
                      ELSE PassedScanNoAdvance(e, currentTime, i + 1)
                 ELSE [done |-> TRUE, cmds |-> <<Pause>>, cur |-> i]

(* second loop: the range that is the recorded current one and whose end   *)
(* plus 0.5 s is reached; done = FALSE when the loop runs to its end       *)
RECURSIVE PassedScan(_, _, _)
PassedScan(e, currentTime, i) ==
    LET validRanges == e.validRanges IN
    IF i >= Len(validRanges)
    THEN [done |-> FALSE, cmds |-> <<>>, cur |-> e.currentSegmentIndex]
    ELSE LET range == At(validRanges, i)
             hit == /\ range.endSeconds # NULL
                    /\ currentTime >= range.endSeconds + PassedBuffer
                    /\ i = e.currentSegmentIndex
         IN IF ~hit THEN PassedScan(e, currentTime, i + 1)
            ELSE IF ~e.singleSegmentMode /\ i < Len(validRanges) - 1
                 THEN IF At(validRanges, i + 1).startSeconds # NULL
                      THEN [done |-> TRUE,
                            cmds |-> <<SeekTo(At(validRanges, i + 1).startSeconds)>>,
                            cur |-> i + 1]
                      ELSE PassedScan(e, currentTime, i + 1)
                 ELSE [done |-> TRUE, cmds |-> <<Pause>>, cur |-> i]

(* SequentialPart that snaps to the first range in single segment mode too *)
SequentialPartSnapAlways(e, currentTime) ==
    LET validRanges == e.validRanges
        targetSegmentIndex == ContainingIndex(validRanges, currentTime, 0)
        scan == PassedScan(e, currentTime, 0)
        lastSegment == At(validRanges, Len(validRanges) - 1)
    IN IF targetSegmentIndex # -1
       THEN Result(<<>>, targetSegmentIndex, <<>>)
       ELSE IF scan.done THEN Result(scan.cmds, scan.cur, <<>>)
       ELSE IF /\ Len(validRanges) > 0
               /\ At(validRanges, 0).startSeconds # NULL
               /\ currentTime < At(validRanges, 0).startSeconds
            THEN Result(initializeSegment(validRanges), e.currentSegmentIndex, <<>>)
       ELSE IF /\ lastSegment.endSeconds # NULL
               /\ currentTime > lastSegment.endSeconds + PassedBuffer
            THEN Result(<<Pause>>, e.currentSegmentIndex, <<>>)
       ELSE Result(<<>>, e.currentSegmentIndex, <<>>)

(* SequentialPart that pauses at, not only beyond, the last end plus 0.5 s *)
SequentialPartPauseAt(e, currentTime) ==
    LET validRanges == e.validRanges
        targetSegmentIndex == ContainingIndex(validRanges, currentTime, 0)
        scan == PassedScan(e, currentTime, 0)
        lastSegment == At(validRanges, Len(validRanges) - 1)
    IN IF targetSegmentIndex # -1
       THEN Result(<<>>, targetSegmentIndex, <<>>)
       ELSE IF scan.done THEN Result(scan.cmds, scan.cur, <<>>)
       ELSE IF /\ ~e.singleSegmentMode
               /\ Len(validRanges) > 0
               /\ At(validRanges, 0).startSeconds # NULL
               /\ currentTime < At(validRanges, 0).startSeconds
            THEN Result(initializeSegment(validRanges), e.currentSegmentIndex, <<>>)
       ELSE IF /\ lastSegment.endSeconds # NULL
               /\ currentTime >= lastSegment.endSeconds
            THEN Result(<<Pause>>, e.currentSegmentIndex, <<>>)
       ELSE Result(<<>>, e.currentSegmentIndex, <<>>)

(* lines 239-291: the part of the handler after the single segment check   *)
SequentialPart(e, currentTime) ==
    LET validRanges == e.validRanges
        targetSegmentIndex == ContainingIndex(validRanges, currentTime, 0)
        scan == PassedScan(e, currentTime, 0)
        lastSegment == At(validRanges, Len(validRanges) - 1)
    IN IF targetSegmentIndex # -1
       THEN Result(<<>>, targetSegmentIndex, <<>>)
       ELSE IF scan.done THEN Result(scan.cmds, scan.cur, <<>>)
       ELSE IF /\ ~e.singleSegmentMode
               /\ Len(validRanges) > 0
               /\ At(validRanges, 0).startSeconds # NULL
               /\ currentTime < At(validRanges, 0).startSeconds
            THEN Result(initializeSegment(validRanges), e.currentSegmentIndex, <<>>)
       ELSE IF /\ lastSegment.endSeconds # NULL
               /\ currentTime > lastSegment.endSeconds + PassedBuffer
            THEN Result(<<Pause>>, e.currentSegmentIndex, <<>>)
       ELSE Result(<<>>, e.currentSegmentIndex, <<>>)

(* timeUpdateHandler with currentTime > endSeconds as the isolated test    *)
timeUpdateHandlerStrict(e, currentTime) ==
    LET validRanges == e.validRanges
        activeRangeIndex == Min(e.activeSegmentIndex, Len(validRanges) - 1)
        activeRange == At(validRanges, activeRangeIndex)
    IN IF /\ e.singleSegmentMode
          /\ e.activeSegmentIndex >= 0
          /\ Truthy(activeRange.endSeconds)
          /\ currentTime > activeRange.endSeconds
       THEN Result(<<Pause>>, e.currentSegmentIndex,
                   <<EndCorrectionTimer(activeRange)>>)
       ELSE SequentialPart(e, currentTime)

timeUpdateHandler(e, currentTime) ==
    LET validRanges == e.validRanges
        activeRangeIndex == Min(e.activeSegmentIndex, Len(validRanges) - 1)
        activeRange == At(validRanges, activeRangeIndex)
    IN IF /\ e.singleSegmentMode
          /\ e.activeSegmentIndex >= 0
          /\ Truthy(activeRange.endSeconds)
          /\ currentTime >= activeRange.endSeconds
       THEN Result(<<Pause>>, e.currentSegmentIndex,
                   <<EndCorrectionTimer(activeRange)>>)
       ELSE SequentialPart(e, currentTime)

----------------------------------------------------------------------------
(* seekedHandler                                                           *)

RECURSIVE NextStartScan(_, _, _)
NextStartScan(e, currentTime, i) ==
    IF i >= Len(e.validRanges) THEN Result(<<>>, e.currentSegmentIndex, <<>>)
    ELSE LET range == At(e.validRanges, i)
         IN IF range.startSeconds # NULL /\ currentTime < range.startSeconds
            THEN Result(<<SeekTo(range.startSeconds)>>, i, <<>>)
            ELSE NextStartScan(e, currentTime, i + 1)

(* seekedHandler without the return in single segment mode                 *)
seekedHandlerAnyMode(e, currentTime) ==
    LET validRanges == e.validRanges
        inSegment == ContainingIndex(validRanges, currentTime, 0) # -1
        lastSegment == At(validRanges, Len(validRanges) - 1)
    IN IF inSegment THEN Result(<<>>, e.currentSegmentIndex, <<>>)
       ELSE IF currentTime < OrZero(At(validRanges, 0).startSeconds)
            THEN Result(initializeSegment(validRanges), e.currentSegmentIndex, <<>>)
       ELSE IF currentTime > OrZero(lastSegment.endSeconds)
            THEN Result(<<Pause>>, e.currentSegmentIndex, <<>>)
       ELSE NextStartScan(e, currentTime, 0)

seekedHandler(e, currentTime) ==
    LET validRanges == e.validRanges
        inSegment == ContainingIndex(validRanges, currentTime, 0) # -1
        lastSegment == At(validRanges, Len(validRanges) - 1)
    IN IF e.singleSegmentMode THEN Result(<<>>, e.currentSegmentIndex, <<>>)
       ELSE IF inSegment THEN Result(<<>>, e.currentSegmentIndex, <<>>)
       ELSE IF currentTime < OrZero(At(validRanges, 0).startSeconds)
            THEN Result(initializeSegment(validRanges), e.currentSegmentIndex, <<>>)
       ELSE IF currentTime > OrZero(lastSegment.endSeconds)
            THEN Result(<<Pause>>, e.currentSegmentIndex, <<>>)
       ELSE NextStartScan(e, currentTime, 0)

(* endedHandler seeking to the end of the first range, not the last       *)
endedHandlerFirst(e) ==
    LET validRanges == e.validRanges
        firstSegment == At(validRanges, 0)
    IN IF Len(validRanges) > 0 /\ firstSegment.endSeconds # NULL
       THEN Result(<<Pause, SeekTo(firstSegment.endSeconds - EndBackoff)>>,
                   e.currentSegmentIndex, <<>>)
       ELSE Result(<<Pause>>, e.currentSegmentIndex, <<>>)

(* endedHandler                                                            *)
endedHandler(e) ==
    LET validRanges == e.validRanges
        lastSegment == At(validRanges, Len(validRanges) - 1)
    IN IF Len(validRanges) > 0 /\ lastSegment.endSeconds # NULL
       THEN Result(<<Pause, SeekTo(lastSegment.endSeconds - EndBackoff)>>,
                   e.currentSegmentIndex, <<>>)
       ELSE Result(<<Pause>>, e.currentSegmentIndex, <<>>)


----------------------------------------------------------------------------
(* The state after construction.                                           *)

Op(op, arg, stale) == [op |-> op, arg |-> arg, stale |-> stale]

Init ==
    /\ timestampRanges = <<EmptyRange(1)>>
    /\ player = FALSE
    /\ singleSegmentMode = FALSE
    /\ activeSegmentIndex = -1
    /\ engine = Detached
    /\ position = 0
    /\ duration = 0
    /\ timers = <<>>
    /\ cmds = <<>>
    /\ lastOp = Op("init", -1, FALSE)

(* A render after a state change: the cleanup of the previous run of the   *)
(* segment effect, then its next run.  cs are the commands the handler     *)
(* issued before the render, ts the timers pending after the handler.      *)
Rerender(p, ranges, single, active, cs, ts) ==
    /\ engine' = RunEffect(p, ranges, single, active)
    /\ timers' = Cleanup(ts)
    /\ cmds' = cs \o MountCmds(RunEffect(p, ranges, single, active))
    /\ position' = ApplyCmds(position,
                             cs \o MountCmds(RunEffect(p, ranges, single, active)))

(* handlePlayerReady: VideoPlayer's onReady hands the player over          *)
PlayerReady ==
    /\ ~player
    /\ player' = TRUE
    /\ Rerender(TRUE, timestampRanges, singleSegmentMode, activeSegmentIndex,
                <<>>, timers)
    /\ lastOp' = Op("playerReady", -1, FALSE)
    /\ UNCHANGED <<timestampRanges, singleSegmentMode, activeSegmentIndex, duration>>

addTimestampRange ==
    /\ Len(timestampRanges) < MaxRanges
    /\ LET newRanges == Append(timestampRanges, EmptyRange(NewId))
       IN /\ timestampRanges' = newRanges
          /\ Rerender(player, newRanges, singleSegmentMode, activeSegmentIndex,
                      <<>>, timers)
          /\ lastOp' = Op("add", -1, FALSE)
    /\ UNCHANGED <<player, singleSegmentMode, activeSegmentIndex, duration>>

(* a write that puts the value into both fields of the object              *)
UpdatedRangeBothFields(range, index, field, value) ==
    [range EXCEPT !.start = value, !.startSeconds = timeToSeconds(value),
                  !.end = value, !.endSeconds = timeToSeconds(value)]

(* updatedRanges[index][field] = value and what follows, on the object     *)
UpdatedRange(range, index, field, value) ==
    LET written == IF field = "start"
                   THEN [range EXCEPT !.start = value,
                                      !.startSeconds = timeToSeconds(value)]
                   ELSE [range EXCEPT !.end = value,
                                      !.endSeconds = timeToSeconds(value)]
    IN IF written.startSeconds # NULL /\ written.endSeconds # NULL
       THEN [written EXCEPT !.label = index + 1]
       ELSE written

(* The write goes to the object itself, so a pending callback that holds   *)
(* the object sees it.                                                     *)
Alias(ts, range) ==
    [k \in 1..Len(ts) |->
        IF ts[k].range.id = range.id THEN [ts[k] EXCEPT !.range = range]
        ELSE ts[k]]

updateTimestampRange(index, field, value) ==
    /\ index \in 0..(Len(timestampRanges) - 1)
    /\ At(timestampRanges, index)[field] # value
    /\ LET range == UpdatedRange(At(timestampRanges, index), index, field, value)
           updatedRanges == [timestampRanges EXCEPT ![index + 1] = range]
       IN /\ timestampRanges' = updatedRanges
          /\ Rerender(player, updatedRanges, singleSegmentMode,
                      activeSegmentIndex, <<>>, Alias(timers, range))
          /\ lastOp' = Op("update", index, FALSE)
    /\ UNCHANGED <<player, singleSegmentMode, activeSegmentIndex, duration>>

(* The Playback Mode button: handleSingleSegmentModeChange(!singleSegmentMode) *)
ToggleMode ==
    /\ singleSegmentMode' = ~singleSegmentMode
    /\ Rerender(player, timestampRanges, ~singleSegmentMode, activeSegmentIndex,
                <<>>, timers)
    /\ lastOp' = Op("toggle", -1, FALSE)
    /\ UNCHANGED <<timestampRanges, player, activeSegmentIndex, duration>>

(* onCut with startTime and endTime the numbers parseTimeToSeconds made of *)
(* its two arguments: the new segment is a new object that takes the place *)
(* of the first wholly empty row, or is pushed when there is none.         *)
(* the last wholly empty row instead of the first                          *)
EmptySegmentIndexLast(ranges) ==
    IF \E k \in 1..Len(ranges) : ranges[k].start = <<>> /\ ranges[k].end = <<>>
    THEN (CHOOSE k \in 1..Len(ranges) :
              /\ ranges[k].start = <<>> /\ ranges[k].end = <<>>
              /\ \A j \in (k + 1)..Len(ranges) :
                     ~(ranges[j].start = <<>> /\ ranges[j].end = <<>>)) - 1
    ELSE -1

EmptySegmentIndex(ranges) ==
    IF \E k \in 1..Len(ranges) : ranges[k].start = <<>> /\ ranges[k].end = <<>>
    THEN (CHOOSE k \in 1..Len(ranges) :
              /\ ranges[k].start = <<>> /\ ranges[k].end = <<>>
              /\ \A j \in 1..(k - 1) :
                     ~(ranges[j].start = <<>> /\ ranges[j].end = <<>>)) - 1
    ELSE -1

onCut(startTime, endTime) ==
    IF startTime = NaN \/ endTime = NaN
    THEN \* lines 457-460: nothing is set, nothing renders
         /\ cmds' = <<>>
         /\ lastOp' = Op("cut", -1, FALSE)
         /\ UNCHANGED <<timestampRanges, player, singleSegmentMode,
                        activeSegmentIndex, engine, position, duration,
                        timers>>
    ELSE
         /\ EmptySegmentIndex(timestampRanges) >= 0 \/ Len(timestampRanges) < MaxRanges
         /\ LET emptySegmentIndex == EmptySegmentIndex(timestampRanges)
                at == IF emptySegmentIndex >= 0 THEN emptySegmentIndex
                      ELSE Len(timestampRanges)
                newSegment == [id |-> NewId,
                               start |-> formatTimeString(startTime),
                               end |-> formatTimeString(endTime),
                               startSeconds |-> startTime,
                               endSeconds |-> endTime,
                               label |-> at + 1]
                updatedRanges == IF emptySegmentIndex >= 0
                                 THEN [timestampRanges EXCEPT ![at + 1] = newSegment]
                                 ELSE Append(timestampRanges, newSegment)
            IN /\ timestampRanges' = updatedRanges
               /\ Rerender(player, updatedRanges, singleSegmentMode,
                           activeSegmentIndex, <<>>, timers)
               /\ lastOp' = Op("cut", at, FALSE)
         /\ UNCHANGED <<player, singleSegmentMode, activeSegmentIndex, duration>>

(* handleLoadVideo with a video URL typed: every row becomes a new object  *)
(* whose seconds are parsed again from its texts; wholly blank rows are    *)
(* dropped and one empty row is put back when none is left.                *)
LoadedRange(range, index) ==
    LET startSec == timeToSeconds(range.start)
        endSec == timeToSeconds(range.end)
    IN IF startSec # NULL /\ endSec # NULL /\ startSec < endSec
       THEN [range EXCEPT !.startSeconds = startSec, !.endSeconds = endSec,
                          !.label = index + 1]
       ELSE [range EXCEPT !.startSeconds = startSec, !.endSeconds = endSec]

NotBlank(range) == Trim(range.start) # <<>> \/ Trim(range.end) # <<>>

(* The callbacks keep the objects they captured, which are no longer the   *)
(* objects of the list: id 0 is an object outside the list.                *)
Orphaned(ts) == [k \in 1..Len(ts) |-> [ts[k] EXCEPT !.range.id = 0]]

(* a list handed on as the filter left it                                  *)
AsFiltered(kept) == kept

(* lines 122-130: one empty row is pushed when the filter left none        *)
OrOneEmpty(kept) == IF kept = <<>> THEN <<EmptyRange(1)>> ELSE kept

handleLoadVideo ==
    /\ LET updatedRanges ==
               [k \in 1..Len(timestampRanges) |->
                   LoadedRange(timestampRanges[k], k - 1)]
           kept == SelectSeq(updatedRanges, NotBlank)
           filteredRanges == OrOneEmpty(kept)
       IN /\ timestampRanges' = filteredRanges
          /\ Rerender(player, filteredRanges, singleSegmentMode,
                      activeSegmentIndex, <<>>, Orphaned(timers))
          /\ lastOp' = Op("load", -1, FALSE)
    /\ UNCHANGED <<player, singleSegmentMode, activeSegmentIndex, duration>>

----------------------------------------------------------------------------
(* jumpToTimestamp                                                         *)

JumpRecheckTimer(range) ==
    [kind |-> "jumpRecheck", range |-> range, stale |-> FALSE]

(* No clearTimeout: the re-checks of earlier jumps stay pending when a new *)
(* jump schedules its own; stale marks them as superseded.                 *)
Supersede(ts) ==
    [k \in 1..Len(ts) |->
        IF ts[k].kind = "jumpRecheck" THEN [ts[k] EXCEPT !.stale = TRUE]
        ELSE ts[k]]

Pending(kind) == Cardinality({ k \in 1..Len(timers) : timers[k].kind = kind })

(* Callbacks of the two delays do not order each other: the sequence keeps *)
(* the 10 ms ones before the 100 ms ones, each kind in scheduling order.   *)
RECURSIVE SelectKind(_, _)
SelectKind(ts, kind) ==
    IF ts = <<>> THEN <<>>
    ELSE IF Head(ts).kind = kind THEN <<Head(ts)>> \o SelectKind(Tail(ts), kind)
    ELSE SelectKind(Tail(ts), kind)

Schedule(ts, new) ==
    SelectKind(ts \o new, "endCorrection") \o SelectKind(ts \o new, "jumpRecheck")

(* a jump that seeks and then plays                                        *)
JumpCmdsPlay(range) == <<SeekTo(range.startSeconds), Play>>

(* The commands of the jump itself: pause, then the seek to the start      *)
JumpCmds(range) == <<Pause, SeekTo(range.startSeconds)>>

(* The Segment button is disabled while !range.start || !range.startSeconds *)
JumpButtonEnabled(range) == range.start # <<>> /\ Truthy(range.startSeconds)

(* lines 402-423: what the function does once its two checks have passed   *)
jumpAccepted(index) ==
    /\ Len(timers) < MaxPending
    /\ LET range == At(timestampRanges, index)
           pending == Schedule(Supersede(timers), <<JumpRecheckTimer(range)>>)
       IN /\ singleSegmentMode' = TRUE
          /\ activeSegmentIndex' = index
          /\ IF singleSegmentMode /\ activeSegmentIndex = index
             THEN \* no state changed: no render, the effect does not run again
                  /\ engine' = engine
                  /\ timers' = pending
                  /\ cmds' = JumpCmds(range)
                  /\ position' = ApplyCmds(position, JumpCmds(range))
             ELSE Rerender(player, timestampRanges, TRUE, index,
                           JumpCmds(range), pending)
          /\ lastOp' = Op("jump", index, FALSE)
    /\ UNCHANGED <<timestampRanges, player, duration>>

(* the checks without the one of the entry's start                         *)
JumpRejectedNoStartCheck(p, ranges, index) ==
    ~p \/ index \notin 0..(Len(ranges) - 1)

(* lines 389-400: the call is ignored without a player, without an entry   *)
(* at the index, or when the entry has no start in seconds                 *)
JumpRejected(p, ranges, index) ==
    \/ ~p
    \/ index \notin 0..(Len(ranges) - 1)
    \/ At(ranges, index).startSeconds = NULL

(* A click on the Segment button of entry index, with a player             *)
jumpToTimestamp(index) ==
    /\ player
    /\ index \in 0..(Len(timestampRanges) - 1)
    /\ JumpButtonEnabled(At(timestampRanges, index))
    /\ ~JumpRejected(player, timestampRanges, index)
    /\ jumpAccepted(index)

(* jumpToTimestamp called with any index, whatever the state of the        *)
(* buttons: an ignored call changes nothing                                *)
jumpToTimestampCall(index) ==
    IF JumpRejected(player, timestampRanges, index)
    THEN /\ cmds' = <<>>
         /\ lastOp' = Op("jump", index, FALSE)
         /\ UNCHANGED <<timestampRanges, player, singleSegmentMode,
                        activeSegmentIndex, engine, position, duration,
                        timers>>
    ELSE jumpAccepted(index)

----------------------------------------------------------------------------
(* Notifications of the transport, delivered to the attached handlers.     *)

Handle(op, arg, at, r) ==
    /\ Len(timers) + Len(r.timers) <= MaxPending
    /\ Pending("endCorrection") + Len(r.timers) <= MaxEndCorrections
    /\ engine' = [engine EXCEPT !.currentSegmentIndex = r.currentSegmentIndex]
    /\ timers' = Schedule(timers, r.timers)
    /\ cmds' = r.cmds
    /\ position' = ApplyCmds(at, r.cmds)
    /\ lastOp' = Op(op, arg, FALSE)
    /\ UNCHANGED <<timestampRanges, player, singleSegmentMode,
                   activeSegmentIndex, duration>>

(* timeupdate with player.currentTime() = t                                *)
TimeUpdate(t) ==
    /\ engine.attached
    /\ Handle("timeupdate", t, t, timeUpdateHandler(engine, OrZero(t)))

(* seeked with player.currentTime() = t                                    *)
Seeked(t) ==
    /\ engine.attached
    /\ Handle("seeked", t, t, seekedHandler(engine, OrZero(t)))

(* ended: the transport has reached the end of the media, whose duration   *)
(* it knows by then                                                        *)
Ended ==
    /\ engine.attached
    /\ duration > 0
    /\ Handle("ended", MediaEnd, MediaEnd, endedHandler(engine))

(* The transport learns the duration of the media (player.duration() is 0  *)
(* or NaN before).  No handler of the container listens to it.             *)
DurationChange ==
    /\ player
    /\ duration = 0
    /\ duration' = MediaEnd
    /\ cmds' = <<>>
    /\ lastOp' = Op("durationchange", MediaEnd, FALSE)
    /\ UNCHANGED <<timestampRanges, player, singleSegmentMode,
                   activeSegmentIndex, engine, position, timers>>

----------------------------------------------------------------------------
(* The setTimeout callbacks.  Callbacks of one delay run in the order in   *)
(* which they were scheduled.                                              *)

FirstOfKind(k) == \A j \in 1..(k - 1) : timers[j].kind # timers[k].kind

Remove(ts, k) == SubSeq(ts, 1, k - 1) \o SubSeq(ts, k + 1, Len(ts))

(* the correction seeking to the end itself                                *)
EndCorrectionCmdsAtEnd(range) ==
    IF range.endSeconds # NULL THEN <<SeekTo(range.endSeconds)>> ELSE <<>>

(* lines 229-233: player.currentTime(activeRange.endSeconds - 0.1)         *)
EndCorrectionCmds(range) ==
    IF range.endSeconds # NULL
    THEN <<SeekTo(range.endSeconds - EndBackoff)>>
    ELSE <<>>

(* a re-check that seeks again whatever the position is                    *)
JumpRecheckCmdsAlways(range, currentTime) == <<SeekTo(range.startSeconds)>>

(* lines 415-423: seek again when the position is off by more than 0.5 s   *)
JumpRecheckCmds(range, currentTime) ==
    IF Abs(OrZero(currentTime) - OrZero(range.startSeconds)) > RecheckTolerance
    THEN <<SeekTo(range.startSeconds)>>
    ELSE <<>>

Fire(k, cs) ==
    /\ timers' = Remove(timers, k)
    /\ cmds' = cs
    /\ position' = ApplyCmds(position, cs)
    /\ lastOp' = Op(timers[k].kind, -1, timers[k].stale)
    /\ UNCHANGED <<timestampRanges, player, singleSegmentMode,
                   activeSegmentIndex, engine, duration>>

FireEndCorrection(k) ==
    /\ k \in 1..Len(timers)
    /\ timers[k].kind = "endCorrection"
    /\ FirstOfKind(k)
    /\ Fire(k, EndCorrectionCmds(timers[k].range))

FireJumpRecheck(k) ==
    /\ k \in 1..Len(timers)
    /\ timers[k].kind = "jumpRecheck"
    /\ FirstOfKind(k)
    /\ Fire(k, JumpRecheckCmds(timers[k].range, position))

----------------------------------------------------------------------------

(* player.currentTime() as a notification can find it: the media plays,    *)
(* and the position moves by itself, only once its duration is known;      *)
(* before, the position is where the last seek left it.                    *)
Reported(positions) ==
    IF duration > 0 THEN positions \cup {position} ELSE {position}

Next ==
    \/ PlayerReady
    \/ addTimestampRange
    \/ \E index \in 0..(MaxRanges - 1), field \in {"start", "end"} :
           \E value \in TypedTexts(index, field) :
               updateTimestampRange(index, field, value)
    \/ ToggleMode
    \/ \E index \in 0..(MaxRanges - 1) : jumpToTimestamp(index)
    \/ \E t \in Reported(Positions) : TimeUpdate(t)
    \/ \E t \in Reported(Positions) : Seeked(t)
    \/ Ended
    \/ DurationChange
    \/ \E k \in 1..MaxPending : FireEndCorrection(k)
    \/ \E k \in 1..MaxPending : FireJumpRecheck(k)

Spec == Init /\ [][Next]_vars

(* The list filled by cuts and re-read by Load Video, played sequentially. *)
CutNext ==
    \/ PlayerReady
    \/ addTimestampRange
    \/ \E pair \in CutPairs : onCut(pair[1], pair[2])
    \/ handleLoadVideo
    \/ DurationChange
    \/ \E t \in Reported(CutPositions) : TimeUpdate(t)
    \/ \E t \in Reported(CutPositions) : Seeked(t)
    \/ Ended

CutSpec == Init /\ [][CutNext]_vars

(* What the user types while editing the fields, before any video is       *)
(* loaded: in the start field of the first row "5", "1:05", "1:00:05", an   *)
(* empty last component, trailing letters and a decimal point; the field   *)
(* can be cleared again.                                                   *)
FieldTexts(index, field) ==
    IF index = 0 /\ field = "start"
    THEN { <<>>, <<"5">>, <<"1", ":", "0", "5">>,
           <<"1", ":", "0", "0", ":", "0", "5">>,
           <<"1", ":">>, <<"5", "a">>, <<"1", ".", "5">> }
    ELSE IF index = 0 THEN { <<>>, <<"2", ":", "0", "0">> }
    ELSE IF field = "start" THEN { <<>>, <<"3", "0">> }
    ELSE { <<>>, <<"4", "0">> }

(* The list edited field by field, with no player.                         *)
TypeNext ==
    \/ addTimestampRange
    \/ \E index \in 0..(MaxRanges - 1), field \in {"start", "end"} :
           \E value \in FieldTexts(index, field) :
               updateTimestampRange(index, field, value)

TypeSpec == Init /\ [][TypeNext]_vars

(* Cuts made before a Segment button is used: (1.5,12.5) and (0,0.05),     *)
(* which the list can hold in either order                                 *)
JumpPairs == { <<150, 1250>>, <<0, 5>> }

(* Positions the transport reports between the jumps: in the gap between   *)
(* the two segments and beyond both                                        *)
JumpPositions == { 100, 1300 }

(* The Segment buttons over a list filled by cuts.                         *)
JumpNext ==
    \/ PlayerReady
    \/ DurationChange
    \/ \E pair \in JumpPairs : onCut(pair[1], pair[2])
    \/ \E index \in 0..(MaxRanges - 1) : jumpToTimestamp(index)
    \/ \E t \in Reported(JumpPositions) : TimeUpdate(t)
    \/ \E k \in 1..MaxPending : FireEndCorrection(k)
    \/ \E k \in 1..MaxPending : FireJumpRecheck(k)

JumpSpec == Init /\ [][JumpNext]_vars

(* How far the position moves between two timeupdate events of a playing   *)
(* transport: a quarter or half a second                                   *)
PlaySteps == { 25, 50 }

(* The transport plays: the position has moved on by step since the last   *)
(* report and timeupdate is delivered.  A transport the handlers have just *)
(* paused does not play on.                                                *)
Playing(step) ==
    /\ duration > 0
    /\ position + step <= MediaEnd
    /\ lastOp.op = "timeupdate" => \A k \in 1..Len(cmds) : cmds[k] # Pause
    /\ TimeUpdate(position + step)

(* A list filled by cuts and then played from the start without another    *)
(* change of the list: once the first timeupdate is delivered only the     *)
(* transport acts.  While it plays, timeupdate keeps being delivered.       *)
PlayNext ==
    \/ lastOp.op # "timeupdate" /\ PlayerReady
    \/ lastOp.op # "timeupdate" /\ DurationChange
    \/ lastOp.op # "timeupdate" /\ \E pair \in CutPairs : onCut(pair[1], pair[2])
    \/ \E step \in PlaySteps : Playing(step)

PlaySpec ==
    Init /\ [][PlayNext]_vars /\ WF_vars(\E step \in PlaySteps : Playing(step))

(* The cuts of JumpPairs and one whose end parseTimeToSeconds could not    *)
(* read                                                                    *)
CallPairs == JumpPairs \cup { <<150, NaN>> }

(* jumpToTimestamp called in every state of a list built by cuts, added    *)
(* rows and typed starts: without a player, with an index that is no       *)
(* entry's (-1 and the one after the last), on an empty entry, and on a    *)
(* filled one.                                                             *)
CallNext ==
    \/ PlayerReady
    \/ addTimestampRange
    \/ \E pair \in CallPairs : onCut(pair[1], pair[2])
    \/ \E index \in 0..(MaxRanges - 1) :
           \E value \in TypedTexts(index, "start") :
               updateTimestampRange(index, "start", value)
    \/ \E index \in (-1)..MaxRanges : jumpToTimestampCall(index)
    \/ \E k \in 1..MaxPending : FireJumpRecheck(k)

CallSpec == Init /\ [][CallNext]_vars


----------------------------------------------------------------------------
(* Vocabulary of the claims.                                               *)

(* <<startSeconds, endSeconds>> of the ranges the attached handlers see    *)
ViewBounds ==
    [k \in 1..Len(engine.validRanges) |->
        <<engine.validRanges[k].startSeconds, engine.validRanges[k].endSeconds>>]

(* the valid sorted view is [(10,20),(30,40)]                              *)
TwoSegments ==
    engine.attached /\ ViewBounds = << <<1000, 2000>>, <<3000, 4000>> >>

AutoAdvance == engine.attached /\ ~engine.singleSegmentMode

(* IsolatedSegment(i): the handlers run with single segment mode on and an *)
(* active index                                                            *)
Isolated ==
    engine.attached /\ engine.singleSegmentMode /\ engine.activeSegmentIndex >= 0

(* the segment the isolated test of the handler reads                      *)
ActiveRange ==
    At(engine.validRanges,
       Min(engine.activeSegmentIndex, Len(engine.validRanges) - 1))

(* a segment as the data model defines a valid one: 0 <= start < end      *)
IsSegment(range) ==
    /\ range.startSeconds # NULL /\ range.endSeconds # NULL
    /\ 0 <= range.startSeconds /\ range.startSeconds < range.endSeconds

(* every range the handlers see is a segment                               *)
WellFormedView ==
    \A k \in 1..Len(engine.validRanges) : IsSegment(engine.validRanges[k])

(* the 10 ms callback of the running handlers is pending and will issue    *)
(* exactly seekTo(t)                                                       *)
CorrectionPending(t) ==
    \E k \in 1..Len(timers) :
        /\ timers[k].kind = "endCorrection"
        /\ ~timers[k].stale
        /\ EndCorrectionCmds(timers[k].range) = <<SeekTo(t)>>

----------------------------------------------------------------------------
(* C1 as stated: with segments [(10,20),(30,40)] in AutoAdvance, the       *)
(* playhead recorded inside segment 0 by the previous notification, a      *)
(* position-advanced notification at t = 20.2 issues exactly seekTo(30).   *)
C1_Original ==
    [][ ( /\ TwoSegments /\ AutoAdvance
          /\ lastOp.op = "timeupdate" /\ lastOp.arg = 1000 /\ cmds = <<>>
          /\ engine.currentSegmentIndex = 0
          /\ lastOp'.op = "timeupdate" /\ lastOp'.arg = 2020 )
        => cmds' = <<SeekTo(3000)>> ]_vars

(* C1 amended: with segments [(10,20),(30,40)] in AutoAdvance and segment  *)
(* 0 the recorded current segment, a position-advanced notification at     *)
(* t = 20.5 (segment 0's end plus the 0.5 s buffer) issues exactly one     *)
(* seekTo(30) and no pause; at t = 20.2 it issues no command.              *)
C1_Amended ==
    [][ ( /\ TwoSegments /\ AutoAdvance
          /\ engine.currentSegmentIndex = 0
          /\ lastOp'.op = "timeupdate" )
        => /\ (lastOp'.arg = 2050 => cmds' = <<SeekTo(3000)>>)
           /\ (lastOp'.arg = 2020 => cmds' = <<>>) ]_vars

C1_Witness ==
    /\ TwoSegments /\ AutoAdvance
    /\ lastOp.op = "timeupdate" /\ lastOp.arg = 2050
    /\ cmds = <<SeekTo(3000)>>
    /\ engine.currentSegmentIndex = 1

(* C2: with segments [(10,20),(30,40)] in AutoAdvance, a position-advanced *)
(* notification at t = 40.6 issues exactly one pause() and no seekTo,      *)
(* whatever the recorded current segment is.                               *)
C2_Claim ==
    ( /\ TwoSegments /\ AutoAdvance
      /\ lastOp.op = "timeupdate" /\ lastOp.arg = 4060 )
    => cmds = <<Pause>>

C4_IsolatedEnd ==
    ( /\ Isolated
      /\ IsSegment(ActiveRange)
      /\ lastOp.op = "timeupdate"
      /\ lastOp.arg >= ActiveRange.endSeconds )
    => /\ cmds = <<Pause>>
       /\ CorrectionPending(ActiveRange.endSeconds - EndBackoff)

C4_Witness ==
    /\ TwoSegments /\ Isolated /\ engine.activeSegmentIndex = 0
    /\ lastOp.op = "timeupdate" /\ lastOp.arg = 2020
    /\ cmds = <<Pause>> /\ CorrectionPending(1990)

(* C5 as stated: after jumpToSegment(1) on [(10,20),(30,40)] and the       *)
(* isolated end correction (seekTo(39.9)), a position-advanced             *)
(* notification at t = 41 issues no command.                               *)
C5_Original ==
    [][ ( /\ TwoSegments /\ Isolated /\ engine.activeSegmentIndex = 1
          /\ lastOp.op = "endCorrection" /\ cmds = <<SeekTo(3990)>>
          /\ lastOp'.op = "timeupdate" /\ lastOp'.arg = 4100 )
        => cmds' = <<>> ]_vars

(* C5 amended: isolated on segment 1 of [(10,20),(30,40)], every           *)
(* position-advanced notification at t >= 40, the one at t = 41 after a    *)
(* correction included, issues pause() again with the seekTo(39.9)         *)
(* pending behind it; a notification at t = 39.9 issues no command.        *)
C5_Amended ==
    ( /\ TwoSegments /\ Isolated /\ engine.activeSegmentIndex = 1
      /\ lastOp.op = "timeupdate" )
    => /\ (lastOp.arg >= 4000 => cmds = <<Pause>> /\ CorrectionPending(3990))
       /\ (lastOp.arg = 3990 => cmds = <<>>)

C5_Witness ==
    /\ TwoSegments /\ Isolated /\ engine.activeSegmentIndex = 1
    /\ lastOp.op = "timeupdate" /\ lastOp.arg = 4100
    /\ cmds = <<Pause>> /\ CorrectionPending(3990)

(* C6: in IsolatedSegment(i), a position-advanced notification below the   *)
(* active segment's end issues no transport command, wherever the playhead *)
(* is.  Stated for views that hold segments only (0 <= start < end).       *)
C6_Claim ==
    ( /\ Isolated
      /\ WellFormedView
      /\ lastOp.op = "timeupdate"
      /\ lastOp.arg < ActiveRange.endSeconds )
    => cmds = <<>>

(* C7: the re-check of a jump that a newer jump has superseded issues no   *)
(* seekTo when its delay runs out.                                         *)
C7_Claim ==
    (lastOp.op = "jumpRecheck" /\ lastOp.stale) => cmds = <<>>

(* C8: a delayed callback of handlers that have been removed since issues  *)
(* no transport command.                                                   *)
C8_Claim ==
    (lastOp.op = "endCorrection" /\ lastOp.stale) => cmds = <<>>

(* C9: on a playback-ended notification the handlers issue pause() and     *)
(* then seekTo(last segment's endSeconds - 0.1), once each, in AutoAdvance *)
(* and in IsolatedSegment mode alike; the last segment is the last entry   *)
(* of the sorted valid view.                                               *)
C9_Ended ==
    lastOp.op = "ended"
    => cmds = <<Pause,
                SeekTo(At(engine.validRanges,
                          Len(engine.validRanges) - 1).endSeconds - EndBackoff)>>

C9_Witness ==
    /\ lastOp.op = "ended"
    /\ TwoSegments /\ Isolated /\ engine.activeSegmentIndex = 0
    /\ cmds = <<Pause, SeekTo(3990)>>

(* C10: a change of the segment list (add or update) issues no transport   *)
(* command, whether or not it changes the valid sorted view.               *)
C10_NoCommands ==
    lastOp.op \in {"add", "update"} => cmds = <<>>

(* An update of row 1 that leaves it without an end, so out of the view    *)
(* before and after, while the handlers are attached and the playhead is   *)
(* before the first segment.                                               *)
C10_Witness ==
    /\ lastOp.op = "update" /\ lastOp.arg = 1
    /\ Len(timestampRanges) = 2
    /\ At(timestampRanges, 1).start # <<>>
    /\ At(timestampRanges, 1).endSeconds = NULL
    /\ engine.attached /\ Len(engine.validRanges) = 1
    /\ position = 500
    /\ cmds = <<>>

(* C11: the valid sorted view the handlers use is non-decreasing by        *)
(* startSeconds and holds only ranges whose startSeconds and endSeconds    *)
(* are both non-null with startSeconds < endSeconds.                       *)
C11_ViewValid ==
    LET view == ValidRanges(timestampRanges)
    IN /\ \A k \in 1..Len(view) :
              /\ view[k].startSeconds # NULL
              /\ view[k].endSeconds # NULL
              /\ view[k].startSeconds < view[k].endSeconds
       /\ \A k \in 1..(Len(view) - 1) :
              view[k].startSeconds <= view[k + 1].startSeconds

(* C12: reading back the text the cut formatter wrote gives the whole      *)
(* seconds of the time that was formatted: for the segment a cut has just  *)
(* written, timeToSeconds of its start text is floor(startSeconds) and     *)
(* timeToSeconds of its end text is floor(endSeconds), neither null.       *)
C12_RoundTrip ==
    lastOp.op = "cut"
    => LET range == At(timestampRanges, lastOp.arg)
       IN /\ range.start = formatTimeString(range.startSeconds)
          /\ range.end = formatTimeString(range.endSeconds)
          /\ timeToSeconds(range.start) = (range.startSeconds \div Centi) * Centi
          /\ timeToSeconds(range.end) = (range.endSeconds \div Centi) * Centi

(* C13: while single segment mode is on (IsolatedSegment), a user-sought   *)
(* notification issues no transport command and changes neither the mode,  *)
(* the active index, the recorded current segment nor the pending          *)
(* callbacks, wherever the playhead was moved to.                          *)
C13_SeekedInert ==
    [][ (engine.singleSegmentMode /\ lastOp'.op = "seeked")
        => /\ cmds' = <<>>
           /\ engine' = engine
           /\ singleSegmentMode' = singleSegmentMode
           /\ activeSegmentIndex' = activeSegmentIndex
           /\ timers' = timers ]_vars

(* a seek into the gap while isolated on segment 1 of [(10,20),(30,40)]    *)
C13_Witness ==
    /\ TwoSegments /\ Isolated /\ engine.activeSegmentIndex = 1
    /\ lastOp.op = "seeked" /\ lastOp.arg = 2020
    /\ cmds = <<>>

(* the operations the claims call engine inputs                            *)
EngineInputs ==
    {"timeupdate", "seeked", "ended", "jump", "toggle", "add", "update"}

(* C14: while the sorted valid view is empty no engine input (notification,*)
(* jump, mode change, change of the list) issues a transport command.      *)
C14_IdleSilent ==
    (lastOp.op \in EngineInputs /\ ValidRanges(timestampRanges) = <<>>)
    => cmds = <<>>

(* C15: while the transport's duration is unknown (<= 0), a                *)
(* position-advanced or user-sought notification issues neither seekTo nor *)
(* pause.                                                                  *)
C15_NoDurationNoCorrection ==
    (duration <= 0 /\ lastOp.op \in {"timeupdate", "seeked"}) => cmds = <<>>

(* C16: a change of the segment list made in IsolatedSegment mode keeps    *)
(* the mode and the active index when the active index is an index of the  *)
(* new sorted valid view, and otherwise resets the mode to AutoAdvance     *)
(* with active index -1.  Stated for changes that leave the view non-empty.*)
C16_Claim ==
    [][ ( /\ singleSegmentMode /\ activeSegmentIndex >= 0
          /\ lastOp'.op \in {"add", "update"}
          /\ ValidRanges(timestampRanges') # <<>> )
        => IF activeSegmentIndex < Len(ValidRanges(timestampRanges'))
           THEN singleSegmentMode' /\ activeSegmentIndex' = activeSegmentIndex
           ELSE ~singleSegmentMode' /\ activeSegmentIndex' = -1 ]_vars

(* C17: whenever the mode is AutoAdvance the active index is -1: switching *)
(* to AutoAdvance clears it.                                               *)
C17_Claim ==
    ~singleSegmentMode => activeSegmentIndex = -1

(* C18: single segment mode is on only after a jump: whenever it is on,    *)
(* the active index is >= 0.                                               *)
C18_Claim ==
    singleSegmentMode => activeSegmentIndex >= 0

(* the ranges of the handlers' view that hold position t, as indexes       *)
Holding(t) ==
    { i \in 0..(Len(engine.validRanges) - 1) :
        /\ At(engine.validRanges, i).startSeconds <= t
        /\ t < At(engine.validRanges, i).endSeconds }

(* C19: in AutoAdvance, a position-advanced notification at a position     *)
(* with startSeconds <= currentSeconds < endSeconds for some segment of    *)
(* the view records the first such segment in sorted order as the current  *)
(* segment and issues no transport command.                                *)
C19_Contained ==
    ( /\ AutoAdvance
      /\ lastOp.op = "timeupdate"
      /\ Holding(lastOp.arg) # {} )
    => /\ cmds = <<>>
       /\ engine.currentSegmentIndex \in Holding(lastOp.arg)
       /\ \A i \in Holding(lastOp.arg) : engine.currentSegmentIndex <= i

(* two overlapping cut segments, (0,12.5) and (1.5,12.5), both holding the *)
(* position 5 s                                                            *)
C19_Witness ==
    /\ AutoAdvance
    /\ ViewBounds = << <<0, 1250>>, <<150, 1250>> >>
    /\ lastOp.op = "timeupdate" /\ lastOp.arg = 500
    /\ Holding(500) = {0, 1}
    /\ engine.currentSegmentIndex = 0 /\ cmds = <<>>

(* C20: in AutoAdvance, on a position-advanced notification at a position  *)
(* outside every segment and at or past the end plus 0.5 s of the recorded *)
(* current segment: when a next segment exists in sorted order, exactly    *)
(* seekTo(next.startSeconds) is issued and the recorded index becomes      *)
(* recorded + 1; when the recorded segment is the last one, exactly        *)
(* pause() is issued; nothing else is issued for the notification.         *)
C20_PassedStep ==
    [][ ( /\ AutoAdvance
          /\ lastOp'.op = "timeupdate"
          /\ Holding(lastOp'.arg) = {}
          /\ lastOp'.arg >= At(engine.validRanges,
                               engine.currentSegmentIndex).endSeconds
                                + PassedBuffer )
        => IF engine.currentSegmentIndex < Len(engine.validRanges) - 1
           THEN /\ cmds' = <<SeekTo(At(engine.validRanges,
                                       engine.currentSegmentIndex + 1).startSeconds)>>
                /\ engine'.currentSegmentIndex = engine.currentSegmentIndex + 1
           ELSE /\ cmds' = <<Pause>>
                /\ engine'.currentSegmentIndex = engine.currentSegmentIndex ]_vars

(* past the last segment of [(10,20),(30,40)], recorded as the current one *)
C20_Witness ==
    /\ TwoSegments /\ AutoAdvance
    /\ lastOp.op = "timeupdate" /\ lastOp.arg = 4060
    /\ engine.currentSegmentIndex = 1
    /\ cmds = <<Pause>>

(* C21: in AutoAdvance, on a position-advanced notification that neither   *)
(* the containing-segment step nor the passed-segment step resolves (no    *)
(* segment holds the position, and the end plus 0.5 s of the recorded      *)
(* current segment is not reached): before the first segment's start,      *)
(* exactly seekTo(first.startSeconds) is issued; beyond the last segment's *)
(* end plus 0.5 s, exactly pause(); otherwise nothing.                     *)
C21_Unresolved ==
    [][ ( /\ AutoAdvance
          /\ lastOp'.op = "timeupdate"
          /\ Holding(lastOp'.arg) = {}
          /\ lastOp'.arg < At(engine.validRanges,
                              engine.currentSegmentIndex).endSeconds
                               + PassedBuffer )
        => cmds' =
             IF lastOp'.arg < At(engine.validRanges, 0).startSeconds
             THEN <<SeekTo(At(engine.validRanges, 0).startSeconds)>>
             ELSE IF lastOp'.arg > At(engine.validRanges,
                                      Len(engine.validRanges) - 1).endSeconds
                                     + PassedBuffer
                  THEN <<Pause>>
                  ELSE <<>> ]_vars

(* the pause beyond the last segment's end while the recorded current     *)
(* segment is the first of two and its end plus 0.5 s is not reached      *)
C21_Witness ==
    /\ AutoAdvance
    /\ Len(engine.validRanges) = 2 /\ engine.currentSegmentIndex = 0
    /\ lastOp.op = "timeupdate" /\ Holding(lastOp.arg) = {}
    /\ lastOp.arg > At(engine.validRanges, 1).endSeconds + PassedBuffer
    /\ cmds = <<Pause>>

(* what step 4 of the position-advanced handling issues at position t for  *)
(* the view of the running handlers, as the specification states it        *)
Step4Resolution(t) ==
    IF t < At(engine.validRanges, 0).startSeconds
    THEN <<SeekTo(At(engine.validRanges, 0).startSeconds)>>
    ELSE IF t > At(engine.validRanges,
                   Len(engine.validRanges) - 1).endSeconds + PassedBuffer
         THEN <<Pause>>
         ELSE <<>>

(* C22: in AutoAdvance, a user-sought notification at a position inside a  *)
(* segment of the view issues no command, and one outside every segment    *)
(* issues what step 4 of the position-advanced handling issues for the     *)
(* same position and view: seekTo(first.startSeconds) before the first     *)
(* segment, pause() only beyond the last segment's end plus 0.5 s.         *)
C22_Claim ==
    (AutoAdvance /\ lastOp.op = "seeked")
    => cmds = IF Holding(lastOp.arg) # {}
              THEN <<>>
              ELSE Step4Resolution(lastOp.arg)

(* C23: an end-of-segment correction (the playback-ended handling and the  *)
(* repositioning after a detected isolated end) never issues a seekTo with *)
(* a negative position; a segment ending below 0.1 s is repositioned to 0. *)
C23_Claim ==
    lastOp.op \in {"ended", "endCorrection"}
    => \A k \in 1..Len(cmds) :
           cmds[k].c = "seekTo" => cmds[k].t >= 0

(* position t is outside every segment of the view by more than 0.5 s      *)
FarOutside(t) ==
    \A i \in 0..(Len(engine.validRanges) - 1) :
        \/ t + PassedBuffer < At(engine.validRanges, i).startSeconds
        \/ t > At(engine.validRanges, i).endSeconds + PassedBuffer

(* C24: in AutoAdvance with a view of segments (0 <= start < end), a       *)
(* position-advanced or user-sought notification at a position outside     *)
(* every segment by more than 0.5 s issues a corrective command (a seekTo  *)
(* or a pause).                                                            *)
C24_Claim ==
    ( /\ AutoAdvance
      /\ WellFormedView
      /\ lastOp.op \in {"timeupdate", "seeked"}
      /\ FarOutside(lastOp.arg) )
    => cmds # <<>>

(* A component of a time code as the specification accepts it: a non-empty *)
(* run of digits.                                                          *)
IsNumeral(part) ==
    part # <<>> /\ \A k \in 1..Len(part) : IsDigit(part[k])

(* parse(text) as the specification states it, in hundredths of a second   *)
ClaimedParse(text) ==
    IF text = <<>> THEN NULL
    ELSE LET raw == Split(text, <<>>, <<>>)
             n(k) == DigitPrefix(raw[k], 0, 0).value
         IN IF \E k \in 1..Len(raw) : ~IsNumeral(raw[k]) THEN NULL
            ELSE IF Len(raw) = 3 THEN (n(1) * 3600 + n(2) * 60 + n(3)) * Centi
            ELSE IF Len(raw) = 2 THEN (n(1) * 60 + n(2)) * Centi
            ELSE IF Len(raw) = 1 THEN n(1) * Centi
            ELSE NULL

(* C25: the seconds the container derives from the text of a field are     *)
(* null when the text is empty or has a component that is empty or is not  *)
(* an integer numeral, and s, m*60+s or h*3600+m*60+s for one, two or      *)
(* three numeral components.                                               *)
C25_Claim ==
    lastOp.op = "update"
    => LET range == At(timestampRanges, lastOp.arg)
       IN /\ range.startSeconds = ClaimedParse(range.start)
          /\ range.endSeconds = ClaimedParse(range.end)

(* C26: an update of a field of entry index changes only that entry: it    *)
(* writes the text into that field and the seconds timeToSeconds derives   *)
(* from the text into the corresponding seconds, possibly sets the label,  *)
(* and leaves the entry's other field and seconds, every other entry, the  *)
(* length of the list and the order of the entries as they were.           *)
C26_UpdateFrame ==
    [][ lastOp'.op = "update"
        => LET i == lastOp'.arg + 1
               old == timestampRanges[i]
               new == timestampRanges'[i]
           IN /\ Len(timestampRanges') = Len(timestampRanges)
              /\ \A k \in 1..Len(timestampRanges) :
                     k # i => timestampRanges'[k] = timestampRanges[k]
              /\ new.id = old.id
              /\ \/ /\ new.start # old.start
                    /\ new.startSeconds = timeToSeconds(new.start)
                    /\ new.end = old.end
                    /\ new.endSeconds = old.endSeconds
                 \/ /\ new.end # old.end
                    /\ new.endSeconds = timeToSeconds(new.end)
                    /\ new.start = old.start
                    /\ new.startSeconds = old.startSeconds
              /\ new.label \in {old.label, lastOp'.arg + 1} ]_vars

(* the start of the first of two filled rows has just been retyped         *)
C26_Witness ==
    /\ lastOp.op = "update" /\ lastOp.arg = 0
    /\ Len(timestampRanges) = 2
    /\ timestampRanges[1].start = <<"1", ":", "0", "5">>
    /\ timestampRanges[1].startSeconds = 65 * Centi
    /\ timestampRanges[1].endSeconds = 120 * Centi
    /\ timestampRanges[2].startSeconds = 30 * Centi
    /\ timestampRanges[2].endSeconds = 40 * Centi

(* C27: no step of the container (add, update, load video, cut, jump, mode *)
(* change, transport notification) makes the list of entries shorter.      *)
C27_Claim ==
    [][ Len(timestampRanges') >= Len(timestampRanges) ]_vars

(* the starts of the segments of the view                                  *)
ViewStarts ==
    { At(engine.validRanges, i).startSeconds :
          i \in 0..(Len(engine.validRanges) - 1) }

(* C28: while the handlers run with single segment mode on, a              *)
(* position-advanced, user-sought or playback-ended notification issues no *)
(* seekTo to the start of a segment: neither the advance to the next       *)
(* segment nor the snap to the first one happens.                          *)
C28_NoStartSeek ==
    ( /\ engine.attached
      /\ engine.singleSegmentMode
      /\ lastOp.op \in {"timeupdate", "seeked", "ended"} )
    => \A k \in 1..Len(cmds) :
           cmds[k].c = "seekTo" => cmds[k].t \notin ViewStarts

(* single segment mode over [(10,20),(30,40)]: a notification at 5 s,      *)
(* before the first segment, issues nothing                                *)
C28_Witness ==
    /\ TwoSegments /\ engine.singleSegmentMode
    /\ lastOp.op = "timeupdate" /\ lastOp.arg = 500
    /\ cmds = <<>>

(* the seekTo commands among cs                                            *)
Seeks(cs) == SelectSeq(cs, LAMBDA c : c.c = "seekTo")

(* C29: a jump issues one seekTo, to the start of its segment, and         *)
(* schedules one re-check; the re-check runs once, reads the position of   *)
(* the transport and issues seekTo(start) again exactly when the position  *)
(* differs from the start by more than 0.5 s, and nothing otherwise: at    *)
(* most two seekTo per jump.                                               *)
C29_Recheck ==
    [][ /\ lastOp'.op = "jump"
           => /\ Seeks(cmds') =
                    <<SeekTo(At(timestampRanges, lastOp'.arg).startSeconds)>>
              /\ Pending("jumpRecheck")' = Pending("jumpRecheck") + 1
        /\ lastOp'.op = "jumpRecheck"
           => \E k \in 1..Len(timers) :
                  /\ timers[k].kind = "jumpRecheck"
                  /\ timers' = Remove(timers, k)
                  /\ cmds' =
                       IF Abs(position - timers[k].range.startSeconds)
                              > RecheckTolerance
                       THEN <<SeekTo(timers[k].range.startSeconds)>>
                       ELSE <<>> ]_vars

(* the re-check of a jump to 1.5 s found the transport elsewhere and has   *)
(* issued the second seekTo                                                *)
C29_Witness ==
    /\ lastOp.op = "jumpRecheck" /\ ~lastOp.stale
    /\ cmds = <<SeekTo(150)>>
    /\ position = 150
    /\ Pending("jumpRecheck") = 0

(* C30: after a jump to entry i, the segment whose end the isolated test   *)
(* of the running handlers enforces is the entry whose start the jump has  *)
(* sought, whatever the order of the entries in the list.                  *)
C30_Claim ==
    (Isolated /\ lastOp.op = "jump")
    => /\ ActiveRange.id = At(timestampRanges, lastOp.arg).id
       /\ ActiveRange.endSeconds = At(timestampRanges, lastOp.arg).endSeconds

(* C31: in AutoAdvance over a view of segments, a seekTo that the          *)
(* passed-segment step of a position-advanced notification issues (no      *)
(* segment holds the position, which has reached the end plus 0.5 s of the *)
(* recorded current segment) targets a position strictly after the         *)
(* position of that notification.                                          *)
C31_Claim ==
    [][ ( /\ AutoAdvance
          /\ WellFormedView
          /\ lastOp'.op = "timeupdate"
          /\ Holding(lastOp'.arg) = {}
          /\ lastOp'.arg >= At(engine.validRanges,
                               engine.currentSegmentIndex).endSeconds
                                + PassedBuffer )
        => \A k \in 1..Len(cmds') :
               cmds'[k].c = "seekTo" => cmds'[k].t > lastOp'.arg ]_vars

(* C32: in AutoAdvance over a fixed non-empty view, a transport that plays *)
(* on and reports its position at least every 0.5 s is eventually paused   *)
(* by the handlers and stays so: from the first report on, the advance     *)
(* through the segments comes to an end.                                   *)
C32_Claim ==
    (AutoAdvance /\ lastOp.op = "timeupdate")
    ~> [](lastOp.op = "timeupdate" /\ cmds = <<Pause>>)

(* C33: a change of the list (an added entry, an edited field, a cut, the  *)
(* list set again by Load Video) that leaves the sorted valid view, the    *)
(* mode and the active index of the running handlers as they were leaves   *)
(* their reaction as it was: at every position, the next position-advanced *)
(* notification issues the commands it would have issued without the       *)
(* change.                                                                 *)
C33_Claim ==
    [][ ( /\ lastOp'.op \in {"add", "update", "cut", "load"}
          /\ engine.attached /\ engine'.attached
          /\ engine'.validRanges = engine.validRanges
          /\ engine'.singleSegmentMode = engine.singleSegmentMode
          /\ engine'.activeSegmentIndex = engine.activeSegmentIndex )
        => \A t \in Positions \cup CutPositions :
               timeUpdateHandler(engine', t).cmds
                   = timeUpdateHandler(engine, t).cmds ]_vars

(* C34: the seconds of every entry are the ones timeToSeconds derives from *)
(* its texts, after add, update, load video and cut alike.                 *)
C34_Claim ==
    \A k \in 1..Len(timestampRanges) :
        /\ timestampRanges[k].startSeconds
               = timeToSeconds(timestampRanges[k].start)
        /\ timestampRanges[k].endSeconds
               = timeToSeconds(timestampRanges[k].end)

(* C35: a call of jumpToTimestamp without a player, with an index that is  *)
(* no entry's, or on an entry whose startSeconds is null issues no         *)
(* transport command, schedules no re-check and leaves the mode, the       *)
(* active index and the running handlers as they were.                     *)
C35_Ignored ==
    [][ ( /\ lastOp'.op = "jump"
          /\ \/ ~player
             \/ lastOp'.arg < 0
             \/ lastOp'.arg >= Len(timestampRanges)
             \/ At(timestampRanges, lastOp'.arg).startSeconds = NULL )
        => /\ cmds' = <<>>
           /\ timers' = timers
           /\ singleSegmentMode' = singleSegmentMode
           /\ activeSegmentIndex' = activeSegmentIndex
           /\ engine' = engine
           /\ position' = position ]_vars

(* with a player, a call on the empty second entry has been ignored        *)
C35_Witness ==
    /\ lastOp.op = "jump" /\ lastOp.arg = 1
    /\ player
    /\ Len(timestampRanges) = 2
    /\ timestampRanges[1].startSeconds = 150
    /\ timestampRanges[2].startSeconds = NULL
    /\ cmds = <<>> /\ timers = <<>>
    /\ ~singleSegmentMode /\ activeSegmentIndex = -1

(* C36: the player never holds more than one handler for each of           *)
(* timeupdate, seeked and ended: whenever the list, the mode or the active *)
(* index changes, the handlers of the previous run are taken off before    *)
(* the new ones are put on, and none is left on when the effect does not   *)
(* subscribe.                                                              *)
C36_OneHandler ==
    engine.subscribed = IF engine.attached THEN 1 ELSE 0

(* the handlers over [(10,20),(30,40)] were replaced by a jump             *)
C36_Witness ==
    /\ TwoSegments /\ lastOp.op = "jump"
    /\ engine.subscribed = 1

(* C37: the list always holds at least one entry: it starts with one empty *)
(* entry, and Load Video, which drops the wholly empty entries, puts one   *)
(* empty entry back when none is left.                                     *)
C37_NeverEmpty ==
    Len(timestampRanges) >= 1

(* Load Video has dropped every entry of a list of empty ones and put one  *)
(* empty entry back                                                        *)
C37_Witness ==
    /\ lastOp.op = "load"
    /\ Len(timestampRanges) = 1
    /\ timestampRanges[1].start = <<>> /\ timestampRanges[1].end = <<>>

(* entry k of the list has neither a start text nor an end text            *)
WhollyEmpty(k) ==
    timestampRanges[k].start = <<>> /\ timestampRanges[k].end = <<>>

(* C38: a cut whose two values are numbers writes the new segment into the *)
(* first entry whose start and end texts are both empty, or appends it     *)
(* when there is no such entry; every other entry is unchanged and the     *)
(* list grows by one entry at most.  A cut with a value that is not a      *)
(* number leaves the list unchanged.                                       *)
C38_CutFrame ==
    [][ lastOp'.op = "cut"
        => IF lastOp'.arg = -1
           THEN timestampRanges' = timestampRanges
           ELSE LET at == lastOp'.arg + 1
                    new == timestampRanges'[at]
                IN /\ IF \E k \in 1..Len(timestampRanges) : WhollyEmpty(k)
                      THEN /\ WhollyEmpty(at)
                           /\ \A k \in 1..(at - 1) : ~WhollyEmpty(k)
                           /\ Len(timestampRanges') = Len(timestampRanges)
                      ELSE /\ at = Len(timestampRanges) + 1
                           /\ Len(timestampRanges') = Len(timestampRanges) + 1
                   /\ \A k \in 1..Len(timestampRanges) :
                          k # at => timestampRanges'[k] = timestampRanges[k]
                   /\ <<new.startSeconds, new.endSeconds>> \in CallPairs
                   /\ new.start = formatTimeString(new.startSeconds)
                   /\ new.end = formatTimeString(new.endSeconds) ]_vars

(* a cut from 0 to 0.05 has filled the second entry, the first wholly      *)
(* empty one after an entry with a typed start only                        *)
C38_Witness ==
    /\ lastOp.op = "cut" /\ lastOp.arg = 1
    /\ Len(timestampRanges) = 2
    /\ timestampRanges[1].start = <<"1", "0">>
    /\ timestampRanges[1].end = <<>>
    /\ timestampRanges[2].startSeconds = 0
    /\ timestampRanges[2].endSeconds = 5

====
